---------------------------- MODULE Spec2Model ----------------------------
(***************************************************************************)
(* Subtitles generator: the desktop application (speech_app.py), the      *)
(* batch transcriber (video_transcriber.py) and the shared subtitle        *)
(* pipeline (segment synthesis, transcript accumulation, SRT               *)
(* serialisation).                                                         *)
(*                                                                         *)
(* Representation.                                                         *)
(*  - A string is a sequence of atoms.  " " and "\n" are the whitespace    *)
(*    atoms, a decimal digit or a punctuation mark is an atom of its own,  *)
(*    and every other atom ("hello", "(listening...)") stands for a run    *)
(*    of non-whitespace characters that the program never looks into.      *)
(*  - A time is a whole number of ticks of 0.1 ms (10000 to the second),   *)
(*    so that times between two milliseconds exist.  Every time the        *)
(*    program itself produces is a sum of durations max(1, w * 0.45) s, a  *)
(*    multiple of 50 ms; the binary rounding of Python's floats is not     *)
(*    represented.                                                         *)
(*  - The recognition engine (vosk) is external: whether a frame ends an   *)
(*    utterance, and the text of each result, are nondeterministic.        *)
(***************************************************************************)
EXTENDS Integers, Sequences, FiniteSets, TLC

(***************************************************************************)
(* Bounds of the model and the texts the engine may return.                *)
(***************************************************************************)
MaxFrames == 2
MaxFinals == 3

NL == "\n"
SP == " "
LISTENING == "(listening...)"

\* Texts of final results: empty, whitespace only, one, two and three words.
FinalTexts ==
  { <<>>, <<SP>>, <<"foo">>, <<"hello", SP, "world">>, <<"a", SP, "b", SP, "c">> }

\* The final texts delivered while the application's threads interleave: an
\* empty and a non-empty one (the application looks at nothing else but the
\* word count, which the pipeline program below varies).
AppFinalTexts == { <<>>, <<"foo">> }

\* Texts of partial results (hypotheses in progress); disjoint from the
\* non-empty final texts so that the origin of a text can be told.
PartialTexts == { <<"hel">> }

(***************************************************************************)
(* Python string operations.                                               *)
(***************************************************************************)
IsSpace(c) == c \in {SP, NL}

RECURSIVE LStrip(_)
LStrip(s) == IF s # <<>> /\ IsSpace(Head(s)) THEN LStrip(Tail(s)) ELSE s

RECURSIVE RStrip(_)
RStrip(s) ==
  IF s # <<>> /\ IsSpace(s[Len(s)]) THEN RStrip(SubSeq(s, 1, Len(s) - 1)) ELSE s

\* str.strip()
Strip(s) == RStrip(LStrip(s))

\* str.split(): the maximal runs of non-whitespace atoms
RECURSIVE SplitWs(_)
SplitWs(s) ==
  LET t == LStrip(s) IN
  IF t = <<>> THEN <<>>
  ELSE LET n == CHOOSE k \in 1..Len(t) :
                  /\ \A j \in 1..k : ~IsSpace(t[j])
                  /\ (k = Len(t) \/ IsSpace(t[k + 1]))
       IN <<SubSeq(t, 1, n)>> \o SplitWs(SubSeq(t, n + 1, Len(t)))

\* str.split(sep): always at least one piece
RECURSIVE SplitOn(_, _)
SplitOn(s, sep) ==
  IF \A j \in 1..Len(s) : s[j] # sep THEN <<s>>
  ELSE LET n == CHOOSE k \in 1..Len(s) :
                  s[k] = sep /\ \A j \in 1..(k - 1) : s[j] # sep
       IN <<SubSeq(s, 1, n - 1)>> \o SplitOn(SubSeq(s, n + 1, Len(s)), sep)

\* sep.join(lines)
RECURSIVE JoinWith(_, _)
JoinWith(lines, sep) ==
  IF lines = <<>> THEN <<>>
  ELSE IF Len(lines) = 1 THEN lines[1]
  ELSE lines[1] \o <<sep>> \o JoinWith(Tail(lines), sep)

\* str.endswith("(listening...)")
EndsWithListening(s) == s # <<>> /\ s[Len(s)] = LISTENING

Digit(d) == <<"0", "1", "2", "3", "4", "5", "6", "7", "8", "9">>[d + 1]

\* str(n) for n >= 0
RECURSIVE Str(_)
Str(n) == IF n < 10 THEN <<Digit(n)>> ELSE Str(n \div 10) \o <<Digit(n % 10)>>

\* f"{n:0{width}d}"
RECURSIVE ZeroPad(_, _)
ZeroPad(s, width) == IF Len(s) >= width THEN s ELSE ZeroPad(<<"0">> \o s, width)

(***************************************************************************)
(* Segment synthesis (speech_app.py add_subtitle_segment and               *)
(* video_transcriber.py generate_srt).                                     *)
(***************************************************************************)
\* max(1, word_count * 0.45) seconds, in ticks
PerWord == 4500
MinDuration == 10000

DurationUnclamped(word_count) == word_count * PerWord

Duration(word_count) ==
  IF word_count * PerWord > MinDuration THEN word_count * PerWord
  ELSE MinDuration

\* len(text.split())
WordCount(text) == Len(SplitWs(text))

\* Python truthiness of result['text'] (the 'text' key is always present in
\* a Result()/FinalResult() of the engine)
HasText(result) == result.text # <<>>

HasTextOrNot(result) == TRUE

\* 'text' in result and result['text'].strip()
HasStrippedText(result) == Strip(result.text) # <<>>

StartAtZero(segments) == 0

\* the end of the last segment, or 0
LastEnd(segments) ==
  IF segments # <<>> THEN segments[Len(segments)].end ELSE 0

\* add_subtitle_segment: the new value of self.subtitle_segments
AppendSegment(segments, result) ==
  IF HasText(result)
  THEN LET duration == Duration(WordCount(result.text))
           start_time == LastEnd(segments)
       IN Append(segments, [start |-> start_time,
                            end |-> start_time + duration,
                            text |-> result.text])
  ELSE segments

(***************************************************************************)
(* SRT serialisation.                                                      *)
(***************************************************************************)
\* seconds - int(seconds), in ticks
Fraction(seconds) == seconds - (seconds \div 10000) * 10000

\* {hours:02d}:{minutes:02d}:{secs:02d},{millis:03d}
TimeString(hours, minutes, secs, millis) ==
  ZeroPad(Str(hours), 2) \o <<":">> \o ZeroPad(Str(minutes), 2) \o <<":">>
    \o ZeroPad(Str(secs), 2) \o <<",">> \o ZeroPad(Str(millis), 3)

format_time_rounding(seconds) ==
  TimeString(seconds \div 36000000,
             (seconds % 36000000) \div 600000,
             (seconds % 600000) \div 10000,
             (Fraction(seconds) * 1000 + 5000) \div 10000)

\* format_time, the same in both programs; seconds is in ticks here:
\* int(seconds // 3600), int((seconds % 3600) // 60), int(seconds % 60),
\* int((seconds - int(seconds)) * 1000)
format_time(seconds) ==
  LET hours == seconds \div 36000000
      minutes == (seconds % 36000000) \div 600000
      secs == (seconds % 600000) \div 10000
      millis == (Fraction(seconds) * 1000) \div 10000
  IN TimeString(hours, minutes, secs, millis)

BlockLinesNoBlank(i, start_time, end_time, text) ==
  << Str(i),
     format_time(start_time) \o <<SP, "-->", SP>> \o format_time(end_time),
     text >>

\* the four lines of block i: index, time range, text, blank
BlockLines(i, start_time, end_time, text) ==
  << Str(i),
     format_time(start_time) \o <<SP, "-->", SP>> \o format_time(end_time),
     text,
     <<>> >>

\* build_srt: srt_lines over self.subtitle_segments
RECURSIVE SrtLines(_, _)
SrtLines(segments, i) ==
  IF i > Len(segments) THEN <<>>
  ELSE BlockLines(i, segments[i].start, segments[i].end, segments[i].text)
         \o SrtLines(segments, i + 1)

build_srt(segments) == JoinWith(SrtLines(segments, 1), NL)

\* generate_srt's loop: the timed entries it derives from the accepted
\* results, cumulative_time being the running end
RECURSIVE SrtEntries(_, _, _)
SrtEntries(results, i, cumulative_time) ==
  IF i > Len(results) THEN <<>>
  ELSE LET duration == Duration(WordCount(results[i].text))
           start_time == cumulative_time
           end_time == cumulative_time + duration
       IN <<[start |-> start_time, end |-> end_time, text |-> results[i].text]>>
            \o SrtEntries(results, i + 1, end_time)

generate_srt_newline(results) ==
  JoinWith(SrtLines(SrtEntries(results, 1, 0), 1), NL) \o <<NL>>

generate_srt(results) == JoinWith(SrtLines(SrtEntries(results, 1, 0), 1), NL)

(***************************************************************************)
(* Transcript view (the Tk text widget holds its content followed by an    *)
(* implicit newline, which get(1.0, END) returns and strip() removes).     *)
(***************************************************************************)
WidgetGet(widget) == widget \o <<NL>>

update_transcript(widget, text) ==
  LET current == Strip(WidgetGet(widget))
  IN IF current # <<>> THEN widget \o <<NL>> \o text ELSE widget \o text

update_partial_transcript(widget, text) ==
  LET current == Strip(WidgetGet(widget))
      lines == SplitOn(current, NL)
      n == Len(lines)
      provisional == text \o <<SP, LISTENING>>
  IN IF EndsWithListening(lines[n])
     THEN JoinWith([lines EXCEPT ![n] = provisional], NL)
     ELSE JoinWith(Append(lines, provisional), NL)

(***************************************************************************)
(* State.                                                                  *)
(***************************************************************************)
VARIABLES
  program,            \* what runs: "gui", "batch", "pipeline" or "format_time"
  frames_left,        \* audio frames the inputs may still deliver
  \* speech_app.py: SpeechRecognitionApp
  model,              \* self.model is set
  recognizer,         \* self.recognizer is set
  rec_buffered,       \* the recognizer holds audio it has not committed
  is_recording,       \* self.is_recording
  recording_stream,   \* self.recording_stream is an open input stream
  audio_file,         \* self.audio_file is set
  process_btn,        \* state of the Process Audio button
  mic_btn,            \* text of the microphone button
  status,             \* self.status_var
  subtitle_segments,  \* self.subtitle_segments
  transcript_text,    \* content of the transcript text widget
  subtitle_text,      \* content of the subtitle text widget
  after_queue,        \* callbacks posted with root.after(0, ...), in order
  load_pc,            \* position of the load_model thread
  pa_pc,              \* position of the process_audio thread
  wav_file            \* process_audio's wav_file until wave.open takes it

gui_vars ==
  << model, recognizer, rec_buffered, is_recording, recording_stream,
     audio_file, process_btn, mic_btn, status, subtitle_segments,
     transcript_text, subtitle_text, after_queue, load_pc, pa_pc, wav_file >>

\* video_transcriber.py: process_video_files and transcribe_audio
VARIABLES
  b_nfiles,     \* len(video_files)
  b_file,       \* index of the file the loop is at
  b_pc,         \* position in the loop body
  b_segments,   \* transcribe_audio's segments (the accepted results)
  b_buffered,   \* the file's recognizer holds uncommitted audio
  b_txt,        \* per file: the transcript written, or Absent
  b_srt,        \* per file: the subtitles written, or Absent
  b_errors      \* files reported with "Error processing"

batch_vars ==
  << b_nfiles, b_file, b_pc, b_segments, b_buffered, b_txt, b_srt, b_errors >>

\* format_time applied on its own
VARIABLES
  fmt_seconds,  \* the argument, in ticks
  fmt_out       \* the string returned, <<>> before the call

fmt_vars == << fmt_seconds, fmt_out >>

\* rename_spaces.py: rename_files_with_underscores
VARIABLES
  r_initial,      \* the directory when the function is called
  r_dir,          \* the directory: what each name is now
  r_todo,         \* the items of list(directory_path.iterdir()) still to come
  dry_run,        \* the argument dry_run
  renamed_count,  \* renamed_count
  error_count,    \* error_count
  r_pc            \* "loop", or "done" once the counts are returned

rename_vars ==
  << r_initial, r_dir, r_todo, dry_run, renamed_count, error_count, r_pc >>

vars == << program, frames_left, gui_vars, batch_vars, fmt_vars, rename_vars >>

\* SpeechRecognitionApp.__init__ (check_models sets one of three statuses)
InitGui ==
  /\ model = FALSE
  /\ recognizer = FALSE
  /\ rec_buffered = FALSE
  /\ is_recording = FALSE
  /\ recording_stream = FALSE
  /\ audio_file = FALSE
  /\ process_btn = "disabled"
  /\ mic_btn = "Use Microphone"
  /\ status \in {"Models directory not found", "Missing models",
                 "All models found locally"}
  /\ subtitle_segments = <<>>
  /\ transcript_text = <<>>
  /\ subtitle_text = <<>>
  /\ after_queue = <<>>
  /\ load_pc = "idle"
  /\ pa_pc = "idle"
  /\ wav_file = "none"

(***************************************************************************)
(* The events a producer posts to the Tk event loop.  src names the call   *)
(* site: "callback" (audio_callback), "chunk" (process_audio's loop) or    *)
(* "final" (process_audio's FinalResult).                                  *)
(***************************************************************************)
Event(fn, arg, src) == [fn |-> fn, arg |-> arg, src |-> src]

\* if 'text' in result and result['text']: root.after(update_transcript),
\* root.after(add_subtitle_segment)
PostFinal(result, src) ==
  IF HasText(result)
  THEN << Event("update_transcript", result.text, src),
          Event("add_subtitle_segment", result, src) >>
  ELSE <<>>

PostPartialAsSegment(partial_result) ==
  << Event("update_partial_transcript", partial_result.partial, "callback"),
     Event("add_subtitle_segment", [text |-> partial_result.partial], "callback") >>

\* if 'partial' in partial_result: root.after(update_partial_transcript)
PostPartial(partial_result) ==
  << Event("update_partial_transcript", partial_result.partial, "callback") >>

(***************************************************************************)
(* Buttons (handlers run by the Tk event loop, each one atomically).       *)
(***************************************************************************)
select_file ==
  /\ program = "gui"
  /\ audio_file' = TRUE
  /\ status' = "File selected"
  /\ UNCHANGED << rename_vars, fmt_vars, batch_vars, wav_file, program, frames_left, model, recognizer, rec_buffered,
                  is_recording, recording_stream, process_btn, mic_btn,
                  subtitle_segments, transcript_text, subtitle_text,
                  after_queue, load_pc, pa_pc >>

\* one load_model thread at a time is represented
load_model_thread ==
  /\ program = "gui"
  /\ load_pc = "idle"
  /\ load_pc' = "start"
  /\ UNCHANGED << rename_vars, fmt_vars, batch_vars, wav_file, program, frames_left, model, recognizer, rec_buffered,
                  is_recording, recording_stream, audio_file, process_btn,
                  mic_btn, status, subtitle_segments, transcript_text,
                  subtitle_text, after_queue, pa_pc >>

\* load_model up to self.model = Model(model_path): the model directory is
\* missing, Model() raises, or the model is set
load_model_Model ==
  /\ program = "gui"
  /\ load_pc = "start"
  /\ \/ /\ status' = "Model not found"
        /\ load_pc' = "idle"
        /\ UNCHANGED model
     \/ /\ status' = "Error loading model"
        /\ load_pc' = "idle"
        /\ UNCHANGED model
     \/ /\ status' = "Loading model..."
        /\ model' = TRUE
        /\ load_pc' = "model"
  /\ UNCHANGED << rename_vars, fmt_vars, batch_vars, wav_file, program, frames_left, recognizer, rec_buffered,
                  is_recording, recording_stream, audio_file, process_btn,
                  mic_btn, subtitle_segments, transcript_text, subtitle_text,
                  after_queue, pa_pc >>

\* self.recognizer = KaldiRecognizer(...): a new recognizer, nothing buffered
load_model_KaldiRecognizer ==
  /\ program = "gui"
  /\ load_pc = "model"
  /\ recognizer' = TRUE
  /\ rec_buffered' = FALSE
  /\ process_btn' = "normal"
  /\ status' = "Model loaded successfully"
  /\ load_pc' = "idle"
  /\ UNCHANGED << rename_vars, fmt_vars, batch_vars, wav_file, program, frames_left, model, is_recording, recording_stream,
                  audio_file, mic_btn, subtitle_segments, transcript_text,
                  subtitle_text, after_queue, pa_pc >>

start_recording ==
  IF ~model
  THEN /\ status' = "Load model first"
       /\ UNCHANGED << is_recording, mic_btn, subtitle_segments,
                       transcript_text, subtitle_text, recording_stream >>
  ELSE /\ is_recording' = TRUE
       /\ mic_btn' = "Stop Microphone"
       /\ subtitle_segments' = <<>>
       /\ transcript_text' = <<>>
       /\ subtitle_text' = <<>>
       /\ \/ /\ recording_stream' = TRUE
             /\ status' = "Recording... Speak now"
          \/ /\ status' = "Recording error"
             /\ UNCHANGED recording_stream

stop_recording_clearing ==
  /\ is_recording' = FALSE
  /\ mic_btn' = "Use Microphone"
  /\ recording_stream' = FALSE
  /\ status' = "Recording stopped"
  /\ subtitle_segments' = <<>>
  /\ transcript_text' = <<>>
  /\ subtitle_text' = <<>>

stop_recording ==
  /\ is_recording' = FALSE
  /\ mic_btn' = "Use Microphone"
  /\ recording_stream' = FALSE
  /\ status' = "Recording stopped"
  /\ UNCHANGED << subtitle_segments, transcript_text, subtitle_text >>

toggle_microphone ==
  /\ program = "gui"
  /\ IF ~is_recording THEN start_recording ELSE stop_recording
  /\ UNCHANGED << rename_vars, fmt_vars, batch_vars, wav_file, program, frames_left, model, recognizer, rec_buffered,
                  audio_file, process_btn, after_queue, load_pc, pa_pc >>

\* one process_audio thread at a time is represented
process_audio_thread ==
  /\ program = "gui"
  /\ process_btn = "normal"
  /\ pa_pc = "idle"
  /\ IF ~audio_file
     THEN status' = "No audio file selected" /\ UNCHANGED pa_pc
     ELSE pa_pc' = "begin" /\ UNCHANGED status
  /\ UNCHANGED << rename_vars, fmt_vars, batch_vars, wav_file, program, frames_left, model, recognizer, rec_buffered,
                  is_recording, recording_stream, audio_file, process_btn,
                  mic_btn, subtitle_segments, transcript_text, subtitle_text,
                  after_queue, load_pc >>

download_srt ==
  /\ program = "gui"
  /\ IF subtitle_segments = <<>>
     THEN status' = "No subtitles to save"
     ELSE status' \in {"SRT saved", "Error saving SRT"}
  /\ UNCHANGED << rename_vars, fmt_vars, batch_vars, wav_file, program, frames_left, model, recognizer, rec_buffered,
                  is_recording, recording_stream, audio_file, process_btn,
                  mic_btn, subtitle_segments, transcript_text, subtitle_text,
                  after_queue, load_pc, pa_pc >>

reset_app ==
  /\ program = "gui"
  /\ is_recording' = FALSE
  /\ IF is_recording
     THEN mic_btn' = "Use Microphone" /\ recording_stream' = FALSE
     ELSE UNCHANGED << mic_btn, recording_stream >>
  /\ audio_file' = FALSE
  /\ transcript_text' = <<>>
  /\ subtitle_text' = <<>>
  /\ subtitle_segments' = <<>>
  /\ process_btn' = "disabled"
  /\ status' = "Ready"
  /\ UNCHANGED << rename_vars, fmt_vars, batch_vars, wav_file, program, frames_left, model, recognizer, rec_buffered,
                  after_queue, load_pc, pa_pc >>

(***************************************************************************)
(* The recognition engine.  AcceptWaveform(frame) either ends an utterance *)
(* (Result() is a final result and nothing stays buffered) or not (the     *)
(* frame stays buffered and PartialResult() is the hypothesis so far).     *)
(* FinalResult() commits what is buffered; with nothing buffered its text  *)
(* is empty.                                                               *)
(***************************************************************************)
Results == [text : FinalTexts]

AppResults == [text : AppFinalTexts]

PartialResults == [partial : PartialTexts]

FinalResult(buffered, results) ==
  IF buffered THEN results ELSE { [text |-> <<>>] }

(***************************************************************************)
(* The microphone producer: audio_callback, run by the audio thread once   *)
(* per captured frame while the stream is open.                            *)
(***************************************************************************)
audio_callback ==
  /\ program = "gui"
  /\ recording_stream
  /\ frames_left > 0
  /\ frames_left' = frames_left - 1
  /\ IF is_recording /\ recognizer
     THEN \/ \E result \in AppResults :
               /\ rec_buffered' = FALSE
               /\ after_queue' = after_queue \o PostFinal(result, "callback")
          \/ \E partial_result \in PartialResults :
               /\ rec_buffered' = TRUE
               /\ after_queue' = after_queue \o PostPartial(partial_result)
     ELSE UNCHANGED << rec_buffered, after_queue >>
  /\ UNCHANGED << rename_vars, fmt_vars, batch_vars, wav_file, program, model, recognizer, is_recording, recording_stream,
                  audio_file, process_btn, mic_btn, status, subtitle_segments,
                  transcript_text, subtitle_text, load_pc, pa_pc >>

(***************************************************************************)
(* The file producer: process_audio, run by a worker thread.               *)
(***************************************************************************)
\* convert_to_wav: ffmpeg writes temp_audio.wav, or (it fails or is absent)
\* the bare except returns the input file as it is
convert_to_wav == {"temp_audio.wav", "input_file"}

\* the status update, the clearing and wav_file = self.convert_to_wav(...)
pa_begin ==
  /\ program = "gui"
  /\ pa_pc = "begin"
  /\ status' = "Processing audio..."
  /\ transcript_text' = <<>>
  /\ subtitle_text' = <<>>
  /\ subtitle_segments' = <<>>
  /\ wav_file' \in convert_to_wav
  /\ pa_pc' = "open"
  /\ UNCHANGED << rename_vars, fmt_vars, batch_vars, program, frames_left, model, recognizer, rec_buffered,
                  is_recording, recording_stream, audio_file, process_btn,
                  mic_btn, after_queue, load_pc >>

\* wave.open(wav_file) and the format check; a file that cannot be opened or
\* is not mono 16-bit PCM raises
pa_open ==
  /\ program = "gui"
  /\ pa_pc = "open"
  /\ wav_file' = "none"
  /\ \/ pa_pc' = "loop" /\ UNCHANGED status
     \/ status' = "Processing error" /\ pa_pc' = "idle"
  /\ UNCHANGED << rename_vars, fmt_vars, batch_vars, program, frames_left, model, recognizer, rec_buffered,
                  is_recording, recording_stream, audio_file, process_btn,
                  mic_btn, subtitle_segments, transcript_text, subtitle_text,
                  after_queue, load_pc >>

\* one iteration of the loop with a non-empty read
pa_chunk ==
  /\ program = "gui"
  /\ pa_pc = "loop"
  /\ frames_left > 0
  /\ frames_left' = frames_left - 1
  /\ \/ \E result \in AppResults :
          /\ rec_buffered' = FALSE
          /\ after_queue' = after_queue \o PostFinal(result, "chunk")
          /\ UNCHANGED << status, pa_pc >>
     \/ /\ rec_buffered' = TRUE
        /\ UNCHANGED << after_queue, status, pa_pc >>
     \/ /\ status' = "Processing error"
        /\ pa_pc' = "idle"
        /\ UNCHANGED << rec_buffered, after_queue >>
  /\ UNCHANGED << rename_vars, fmt_vars, batch_vars, wav_file, program, model, recognizer, is_recording, recording_stream,
                  audio_file, process_btn, mic_btn, subtitle_segments,
                  transcript_text, subtitle_text, load_pc >>

pa_eof_without_flush ==
  /\ program = "gui"
  /\ pa_pc = "loop"
  /\ pa_pc' = "idle"
  /\ status' = "Processing complete"
  /\ UNCHANGED << rename_vars, fmt_vars, batch_vars, wav_file, program, frames_left, model, recognizer, rec_buffered,
                  is_recording, recording_stream, audio_file, process_btn,
                  mic_btn, subtitle_segments, transcript_text,
                  subtitle_text, after_queue, load_pc >>

\* the zero-length read: break
pa_eof ==
  /\ program = "gui"
  /\ pa_pc = "loop"
  /\ pa_pc' = "flush"
  /\ UNCHANGED << rename_vars, fmt_vars, batch_vars, wav_file, program, frames_left, model, recognizer, rec_buffered,
                  is_recording, recording_stream, audio_file, process_btn,
                  mic_btn, status, subtitle_segments, transcript_text,
                  subtitle_text, after_queue, load_pc >>

\* final_result = self.recognizer.FinalResult() and what follows
pa_FinalResult ==
  /\ program = "gui"
  /\ pa_pc = "flush"
  /\ \E final_json \in FinalResult(rec_buffered, AppResults) :
       after_queue' = after_queue \o PostFinal(final_json, "final")
  /\ rec_buffered' = FALSE
  /\ status' = "Processing complete"
  /\ pa_pc' = "idle"
  /\ UNCHANGED << rename_vars, fmt_vars, batch_vars, wav_file, program, frames_left, model, recognizer, is_recording,
                  recording_stream, audio_file, process_btn, mic_btn,
                  subtitle_segments, transcript_text, subtitle_text, load_pc >>

(***************************************************************************)
(* The Tk event loop runs the posted callbacks in the order posted.        *)
(***************************************************************************)
run_update_transcript ==
  /\ program = "gui"
  /\ after_queue # <<>>
  /\ Head(after_queue).fn = "update_transcript"
  /\ transcript_text' = update_transcript(transcript_text, Head(after_queue).arg)
  /\ after_queue' = Tail(after_queue)
  /\ UNCHANGED << rename_vars, fmt_vars, batch_vars, wav_file, program, frames_left, model, recognizer, rec_buffered,
                  is_recording, recording_stream, audio_file, process_btn,
                  mic_btn, status, subtitle_segments, subtitle_text, load_pc,
                  pa_pc >>

run_update_partial_transcript ==
  /\ program = "gui"
  /\ after_queue # <<>>
  /\ Head(after_queue).fn = "update_partial_transcript"
  /\ transcript_text' =
       update_partial_transcript(transcript_text, Head(after_queue).arg)
  /\ after_queue' = Tail(after_queue)
  /\ UNCHANGED << rename_vars, fmt_vars, batch_vars, wav_file, program, frames_left, model, recognizer, rec_buffered,
                  is_recording, recording_stream, audio_file, process_btn,
                  mic_btn, status, subtitle_segments, subtitle_text, load_pc,
                  pa_pc >>

\* add_subtitle_segment, update_subtitles included
run_add_subtitle_segment ==
  /\ program = "gui"
  /\ after_queue # <<>>
  /\ Head(after_queue).fn = "add_subtitle_segment"
  /\ subtitle_segments' = AppendSegment(subtitle_segments, Head(after_queue).arg)
  /\ subtitle_text' = IF HasText(Head(after_queue).arg)
                      THEN build_srt(subtitle_segments')
                      ELSE subtitle_text
  /\ after_queue' = Tail(after_queue)
  /\ UNCHANGED << rename_vars, fmt_vars, batch_vars, wav_file, program, frames_left, model, recognizer, rec_buffered,
                  is_recording, recording_stream, audio_file, process_btn,
                  mic_btn, status, transcript_text, load_pc, pa_pc >>

(***************************************************************************)
(* video_transcriber.py: process_video_files over the video files found,   *)
(* numbered 1..b_nfiles in iteration order.                                *)
(***************************************************************************)
MaxFiles == 2

\* a file that does not exist: unlike every content, the empty one included
Absent == <<"(no such file)">>

InitBatch ==
  /\ b_nfiles \in 0..MaxFiles
  /\ b_file = 1
  /\ b_pc = IF b_nfiles = 0 THEN "done" ELSE "extract"
  /\ b_segments = <<>>
  /\ b_buffered = FALSE
  /\ b_txt = [f \in 1..b_nfiles |-> Absent]
  /\ b_srt = [f \in 1..b_nfiles |-> Absent]
  /\ b_errors = {}

\* the state of the program that is not running
GuiOff ==
  /\ model = FALSE
  /\ recognizer = FALSE
  /\ rec_buffered = FALSE
  /\ is_recording = FALSE
  /\ recording_stream = FALSE
  /\ audio_file = FALSE
  /\ process_btn = "disabled"
  /\ mic_btn = "Use Microphone"
  /\ status = "Ready"
  /\ subtitle_segments = <<>>
  /\ transcript_text = <<>>
  /\ subtitle_text = <<>>
  /\ after_queue = <<>>
  /\ load_pc = "idle"
  /\ pa_pc = "idle"
  /\ wav_file = "none"

BatchOff ==
  /\ b_nfiles = 0
  /\ b_file = 1
  /\ b_pc = "done"
  /\ b_segments = <<>>
  /\ b_buffered = FALSE
  /\ b_txt = << >>
  /\ b_srt = << >>
  /\ b_errors = {}

\* the next iteration of "for video_file in video_files", or the end
NextFile ==
  /\ b_file' = b_file + 1
  /\ b_pc' = IF b_file + 1 > b_nfiles THEN "done" ELSE "extract"

FileFailedAborts ==
  /\ b_errors' = b_errors \cup {b_file}
  /\ b_file' = b_file
  /\ b_pc' = "done"

\* except Exception as e: print(f"  Error processing ...")
FileFailed ==
  /\ b_errors' = b_errors \cup {b_file}
  /\ NextFile

\* extract_audio: ffmpeg succeeds, or RuntimeError
pvf_extract_audio ==
  /\ program = "batch"
  /\ b_pc = "extract"
  /\ \/ b_pc' = "open" /\ UNCHANGED << b_file, b_errors >>
     \/ FileFailed
  /\ UNCHANGED << rename_vars, fmt_vars, program, frames_left, gui_vars, b_nfiles, b_segments,
                  b_buffered, b_txt, b_srt >>

\* transcribe_audio up to the loop: Model(), KaldiRecognizer(), wave.open and
\* the format check; any of them may raise
ta_open ==
  /\ program = "batch"
  /\ b_pc = "open"
  /\ \/ /\ b_pc' = "loop"
        /\ b_segments' = <<>>
        /\ b_buffered' = FALSE
        /\ UNCHANGED << b_file, b_errors >>
     \/ FileFailed /\ UNCHANGED << b_segments, b_buffered >>
  /\ UNCHANGED << rename_vars, fmt_vars, program, frames_left, gui_vars, b_nfiles, b_txt, b_srt >>

\* if 'text' in result and result['text'].strip(): segments.append(result)
Accept(segments, result) ==
  IF HasStrippedText(result) THEN Append(segments, result) ELSE segments

\* one iteration of transcribe_audio's loop with a non-empty read
ta_chunk ==
  /\ program = "batch"
  /\ b_pc = "loop"
  /\ frames_left > 0
  /\ frames_left' = frames_left - 1
  /\ \/ \E result \in Results :
          /\ b_segments' = Accept(b_segments, result)
          /\ b_buffered' = FALSE
          /\ UNCHANGED << b_file, b_pc, b_errors >>
     \/ /\ b_buffered' = TRUE
        /\ UNCHANGED << b_segments, b_file, b_pc, b_errors >>
     \/ /\ FileFailed
        /\ UNCHANGED << b_segments, b_buffered >>
  /\ UNCHANGED << rename_vars, fmt_vars, program, gui_vars, b_nfiles, b_txt, b_srt >>

ta_eof_without_flush ==
  /\ program = "batch"
  /\ b_pc = "loop"
  /\ b_pc' = "write_txt"
  /\ UNCHANGED << rename_vars, fmt_vars, program, frames_left, gui_vars, b_nfiles, b_file,
                  b_segments, b_buffered, b_txt, b_srt, b_errors >>

\* the zero-length read: break
ta_eof ==
  /\ program = "batch"
  /\ b_pc = "loop"
  /\ b_pc' = "flush"
  /\ UNCHANGED << rename_vars, fmt_vars, program, frames_left, gui_vars, b_nfiles, b_file,
                  b_segments, b_buffered, b_txt, b_srt, b_errors >>

\* final_result = recognizer.FinalResult() ... return segments
ta_FinalResult ==
  /\ program = "batch"
  /\ b_pc = "flush"
  /\ \E final_json \in FinalResult(b_buffered, Results) :
       b_segments' = Accept(b_segments, final_json)
  /\ b_buffered' = FALSE
  /\ b_pc' = "write_txt"
  /\ UNCHANGED << rename_vars, fmt_vars, program, frames_left, gui_vars, b_nfiles, b_file, b_txt,
                  b_srt, b_errors >>

\* " ".join([seg['text'] for seg in segments if 'text' in seg])
full_transcript(segments) ==
  JoinWith([i \in 1..Len(segments) |-> segments[i].text], SP)

\* the transcript is written, or open/write raises
pvf_write_txt ==
  /\ program = "batch"
  /\ b_pc = "write_txt"
  /\ \/ /\ b_txt' = [b_txt EXCEPT ![b_file] = full_transcript(b_segments)]
        /\ b_pc' = "write_srt"
        /\ UNCHANGED << b_file, b_errors >>
     \/ FileFailed /\ UNCHANGED b_txt
  /\ UNCHANGED << rename_vars, fmt_vars, program, frames_left, gui_vars, b_nfiles, b_segments,
                  b_buffered, b_srt >>

\* the subtitles are written (and the audio file removed), or open/write raises
pvf_write_srt ==
  /\ program = "batch"
  /\ b_pc = "write_srt"
  /\ \/ FileFailed /\ UNCHANGED b_srt
     \/ /\ NextFile
        /\ UNCHANGED b_errors
        /\ b_srt' = [b_srt EXCEPT ![b_file] = generate_srt(b_segments)]
  /\ UNCHANGED << rename_vars, fmt_vars, program, frames_left, gui_vars, b_nfiles, b_segments,
                  b_buffered, b_txt >>

(***************************************************************************)
(* The pipeline on its own: each final result is handed both to the        *)
(* application's consumer side (what process_audio posts for it, run at    *)
(* once: update_transcript, add_subtitle_segment) and to transcribe_audio's *)
(* filter; generate_srt and the transcript are then written for the batch  *)
(* side.  Here frames_left counts the results still to come.               *)
(***************************************************************************)
InitPipeline ==
  /\ b_nfiles = 1
  /\ b_file = 1
  /\ b_pc = "loop"
  /\ b_segments = <<>>
  /\ b_buffered = FALSE
  /\ b_txt = [f \in {1} |-> Absent]
  /\ b_srt = [f \in {1} |-> Absent]
  /\ b_errors = {}

pipeline_final ==
  /\ program = "pipeline"
  /\ b_pc = "loop"
  /\ frames_left > 0
  /\ frames_left' = frames_left - 1
  /\ \E result \in Results :
       LET posted == PostFinal(result, "chunk") IN
       /\ transcript_text' =
            IF posted # <<>>
            THEN update_transcript(transcript_text, posted[1].arg)
            ELSE transcript_text
       /\ subtitle_segments' =
            IF posted # <<>>
            THEN AppendSegment(subtitle_segments, posted[2].arg)
            ELSE subtitle_segments
       /\ subtitle_text' =
            IF posted # <<>> /\ HasText(posted[2].arg)
            THEN build_srt(subtitle_segments')
            ELSE subtitle_text
       /\ b_segments' = Accept(b_segments, result)
  /\ UNCHANGED << rename_vars, fmt_vars, program, model, recognizer, rec_buffered,
                  is_recording, recording_stream, audio_file, process_btn,
                  mic_btn, status, after_queue, load_pc, pa_pc, wav_file, b_nfiles,
                  b_file, b_pc, b_buffered, b_txt, b_srt, b_errors >>

pipeline_write ==
  /\ program = "pipeline"
  /\ b_pc = "loop"
  /\ b_pc' = "done"
  /\ b_txt' = [b_txt EXCEPT ![b_file] = full_transcript(b_segments)]
  /\ b_srt' = [b_srt EXCEPT ![b_file] = generate_srt(b_segments)]
  /\ UNCHANGED << rename_vars, fmt_vars, program, frames_left, gui_vars, b_nfiles, b_file,
                  b_segments, b_buffered, b_errors >>

(***************************************************************************)
(* format_time on its own, over times with every field at its least and    *)
(* greatest value, 3725.4 s among them.                                    *)
(***************************************************************************)
TimeInputs ==
  { h * 36000000 + m * 600000 + sec * 10000 + frac :
      h \in {0, 1, 27}, m \in {0, 2, 59}, sec \in {0, 5, 59},
      frac \in {0, 4000, 8999, 9999} }

FmtOff == fmt_seconds = 0 /\ fmt_out = <<>>

InitFormat == fmt_seconds \in TimeInputs /\ fmt_out = <<>>

call_format_time ==
  /\ program = "format_time"
  /\ fmt_out = <<>>
  /\ fmt_out' = format_time(fmt_seconds)
  /\ UNCHANGED << program, frames_left, gui_vars, batch_vars, rename_vars,
                  fmt_seconds >>

(***************************************************************************)
(* rename_spaces.py: rename_files_with_underscores over a directory.  A    *)
(* name is a string; an entry says what the name is (nothing, a file, a     *)
(* directory, or a symbolic link whose target does not exist) and, for a   *)
(* file or a link, under which name it was found, so that it can be        *)
(* followed through its renaming.                                          *)
(***************************************************************************)
MaxEntries == 3

US == "_"

\* the names a directory may hold: with and without spaces, two of them
\* ("a b_c", "a_b c") with the same underscore name
FileNames ==
  { <<"a", SP, "b">>, <<"a", US, "b">>, <<"a", SP, "b", US, "c">>,
    <<"a", US, "b", SP, "c">>, <<"a", US, "b", US, "c">>, <<"c">> }

NoEntry == [kind |-> "none", orig |-> <<>>]

Directories ==
  { d \in [FileNames -> {"none", "file", "dir", "link"}] :
      Cardinality({ n \in FileNames : d[n] # "none" }) <= MaxEntries }

\* ' ' in item.name
HasSpace(name) == \E i \in 1..Len(name) : name[i] = SP

\* item.name.replace(' ', '_')
Underscored(name) ==
  [i \in 1..Len(name) |-> IF name[i] = SP THEN US ELSE name[i]]

\* new_path.exists(): Path.exists follows symbolic links, so it is False
\* for a link whose target does not exist
TargetExists(dir, new_name) == dir[new_name].kind \in {"file", "dir"}

RenamedAlways(dir, name, new_name, dry) ==
  [dir EXCEPT ![new_name] = dir[name], ![name] = NoEntry]

\* the directory after "if dry_run: print(...) else: item.rename(new_path)";
\* os.rename replaces whatever the new name is
Renamed(dir, name, new_name, dry) ==
  IF dry THEN dir
  ELSE [dir EXCEPT ![new_name] = dir[name], ![name] = NoEntry]

InitRename ==
  /\ \E d \in Directories :
       r_initial = [n \in FileNames |->
                      [kind |-> d[n],
                       orig |-> IF d[n] \in {"file", "link"} THEN n ELSE <<>>]]
  /\ r_dir = r_initial
  /\ r_todo = { n \in FileNames : r_initial[n].kind # "none" }
  /\ dry_run \in BOOLEAN
  /\ renamed_count = 0
  /\ error_count = 0
  /\ r_pc = "loop"

RenameOff ==
  /\ r_initial = [n \in FileNames |-> NoEntry]
  /\ r_dir = r_initial
  /\ r_todo = {}
  /\ dry_run = FALSE
  /\ renamed_count = 0
  /\ error_count = 0
  /\ r_pc = "done"

\* one iteration of "for item in items", the items in any order
rn_item ==
  /\ program = "rename"
  /\ r_pc = "loop"
  /\ \E item \in r_todo :
       /\ r_todo' = r_todo \ {item}
       /\ IF r_dir[item].kind = "dir" \/ ~HasSpace(item)
          THEN UNCHANGED << r_dir, renamed_count, error_count >>
          ELSE LET new_name == Underscored(item) IN
               IF TargetExists(r_dir, new_name)
               THEN /\ error_count' = error_count + 1
                    /\ UNCHANGED << r_dir, renamed_count >>
               ELSE \/ /\ r_dir' = Renamed(r_dir, item, new_name, dry_run)
                       /\ renamed_count' = renamed_count + 1
                       /\ UNCHANGED error_count
                    \/ /\ ~dry_run
                       /\ error_count' = error_count + 1
                       /\ UNCHANGED << r_dir, renamed_count >>
  /\ UNCHANGED << program, frames_left, gui_vars, batch_vars, fmt_vars,
                  r_initial, dry_run, r_pc >>

\* return renamed_count, error_count (0, 0 at once for an empty directory)
rn_return ==
  /\ program = "rename"
  /\ r_pc = "loop"
  /\ r_todo = {}
  /\ r_pc' = "done"
  /\ UNCHANGED << program, frames_left, gui_vars, batch_vars, fmt_vars,
                  r_initial, r_dir, r_todo, dry_run, renamed_count, error_count >>

InitRenameProgram ==
  program = "rename" /\ frames_left = 0
    /\ InitRename /\ GuiOff /\ BatchOff /\ FmtOff

NextRename == rn_item \/ rn_return

SpecRename == InitRenameProgram /\ [][NextRename]_vars

(***************************************************************************)
(* The specification: one of the programs runs.                            *)
(***************************************************************************)
Init ==
  \/ program = "gui" /\ frames_left = MaxFrames
       /\ InitGui /\ BatchOff /\ FmtOff /\ RenameOff
  \/ program = "batch" /\ frames_left = MaxFrames
       /\ InitBatch /\ GuiOff /\ FmtOff /\ RenameOff
  \/ program = "pipeline" /\ frames_left = MaxFinals
       /\ InitPipeline /\ GuiOff /\ FmtOff /\ RenameOff
  \/ program = "format_time" /\ frames_left = 0
       /\ InitFormat /\ GuiOff /\ BatchOff /\ RenameOff
  \/ InitRenameProgram

Next ==
  \/ select_file
  \/ load_model_thread
  \/ load_model_Model
  \/ load_model_KaldiRecognizer
  \/ toggle_microphone
  \/ process_audio_thread
  \/ download_srt
  \/ reset_app
  \/ audio_callback
  \/ pa_begin
  \/ pa_open
  \/ pa_chunk
  \/ pa_eof
  \/ pa_FinalResult
  \/ run_update_transcript
  \/ run_update_partial_transcript
  \/ run_add_subtitle_segment
  \/ pvf_extract_audio
  \/ ta_open
  \/ ta_chunk
  \/ ta_eof
  \/ ta_FinalResult
  \/ pvf_write_txt
  \/ pvf_write_srt
  \/ pipeline_final
  \/ pipeline_write
  \/ call_format_time
  \/ rn_item
  \/ rn_return

Spec == Init /\ [][Next]_vars

(***************************************************************************)
(* The batch program on its own.  process_video_files is one sequential    *)
(* loop: each step is a call (ffmpeg, the recognizer, a file write) that    *)
(* returns or raises, so the loop keeps taking steps until it is done.      *)
(***************************************************************************)
InitBatchProgram ==
  program = "batch" /\ frames_left = MaxFrames
    /\ InitBatch /\ GuiOff /\ FmtOff /\ RenameOff

NextBatch ==
  \/ pvf_extract_audio
  \/ ta_open
  \/ ta_chunk
  \/ ta_eof
  \/ ta_FinalResult
  \/ pvf_write_txt
  \/ pvf_write_srt

SpecBatch == InitBatchProgram /\ [][NextBatch]_vars /\ WF_vars(NextBatch)

(***************************************************************************)
(* Properties.                                                             *)
(***************************************************************************)
Last(seq) == seq[Len(seq)]

Texts(segments) == [i \in 1..Len(segments) |-> segments[i].text]

\* the timed entries generate_srt derives from transcribe_audio's segments
BatchEntries == SrtEntries(b_segments, 1, 0)

Contiguous(segments) ==
  /\ segments # <<>> => segments[1].start = 0
  /\ \A i \in 2..Len(segments) : segments[i].start = segments[i - 1].end

\* C1: the synthesized segments are contiguous, in the application's
\* subtitle_segments and in generate_srt's entries alike: the first starts
\* at 0 and every other starts where the one before it ends.
C1_Contiguous == Contiguous(subtitle_segments) /\ Contiguous(BatchEntries)

\* C1 witness: two results were accepted on both sides.
C1_Witness == Len(subtitle_segments) >= 2 /\ Len(b_segments) >= 2

\* end - start = max(1.0, w * 0.45) s for a text of w words, and end > start
ExactDurations(segments) ==
  \A i \in 1..Len(segments) :
    LET w == WordCount(segments[i].text)
        d == segments[i].end - segments[i].start
    IN /\ d = (IF w * 4500 > 10000 THEN w * 4500 ELSE 10000)
       /\ segments[i].end > segments[i].start

HelloWorldFoo == << <<"hello", SP, "world">>, <<"foo">> >>

C3_NoEmptySegment ==
  /\ \A i \in 1..Len(subtitle_segments) : subtitle_segments[i].text # <<>>
  /\ \A i \in 1..Len(b_segments) : b_segments[i].text # <<>>
  /\ \A i \in 1..Len(after_queue) :
       after_queue[i].fn = "add_subtitle_segment" =>
         after_queue[i].arg.text # <<>>

\* C3 witness: the results delivered so far were all dropped (the
\* application drops only the empty text), and so was a flush of nothing.
C3_Witness ==
  \/ /\ program = "pipeline"
     /\ frames_left < MaxFinals
     /\ subtitle_segments = <<>>
     /\ b_segments = <<>>
  \/ /\ program = "batch"
     /\ b_pc = "write_txt"
     /\ frames_left = MaxFrames
     /\ b_segments = <<>>

\* the lines of the transcript view
TranscriptLines == SplitOn(transcript_text, NL)

\* C4: the transcript view holds at most one provisional line (one marked
\* "(listening...)"), and that line is the last one.
C4_OneProvisionalLineLast ==
  \A i \in 1..Len(TranscriptLines) :
    EndsWithListening(TranscriptLines[i]) => i = Len(TranscriptLines)

Atoms(s) == { s[i] : i \in 1..Len(s) }

PartialAtoms == UNION { Atoms(t) : t \in PartialTexts }

\* C5: no text of a partial result is ever in subtitle_segments, in the
\* serialized subtitles, or on its way to add_subtitle_segment.
C5_NoPartialInSubtitles ==
  /\ \A i \in 1..Len(subtitle_segments) :
       Atoms(subtitle_segments[i].text) \cap PartialAtoms = {}
  /\ Atoms(subtitle_text) \cap PartialAtoms = {}
  /\ Atoms(build_srt(subtitle_segments)) \cap PartialAtoms = {}
  /\ \A i \in 1..Len(after_queue) :
       after_queue[i].fn = "add_subtitle_segment" =>
         Atoms(after_queue[i].arg.text) \cap PartialAtoms = {}

\* C5 witness: a partial result is displayed while a segment exists.
C5_Witness ==
  /\ subtitle_segments # <<>>
  /\ Atoms(transcript_text) \cap PartialAtoms # {}

\* out is exactly one four-line block per segment, in order
IsBlocksOf(out, segments) ==
  IF segments = <<>> THEN out = <<>>
  ELSE LET lines == SplitOn(out, NL) IN
       /\ Len(lines) = 4 * Len(segments)
       /\ \A i \in 1..Len(segments) :
            /\ lines[4 * i - 3] = Str(i)
            /\ lines[4 * i - 2] =
                 format_time(segments[i].start) \o <<SP, "-->", SP>>
                   \o format_time(segments[i].end)
            /\ lines[4 * i - 1] = segments[i].text
            /\ lines[4 * i] = <<>>

\* C6: serializing no segment gives the empty output, and serializing N
\* segments gives exactly N blocks in order, block i being the index i, the
\* line "start --> end", the text and a blank line; for build_srt and for
\* generate_srt.
C6_Blocks ==
  /\ IsBlocksOf(build_srt(subtitle_segments), subtitle_segments)
  /\ IsBlocksOf(generate_srt(b_segments), BatchEntries)
  /\ subtitle_segments # <<>> => subtitle_text = build_srt(subtitle_segments)
  /\ \A f \in DOMAIN b_srt :
       b_srt[f] # Absent /\ b_file = f /\ b_pc = "done" =>
         b_srt[f] = generate_srt(b_segments)

\* C6 witness: three segments on both sides, written.
C6_Witness ==
  /\ Len(subtitle_segments) = 3
  /\ Len(b_segments) = 3
  /\ b_pc = "done"

IsDigit(c) == \E d \in 0..9 : Digit(d) = c

DigitValue(c) == CHOOSE d \in 0..9 : Digit(d) = c

\* the number a string of digits writes
RECURSIVE Number(_)
Number(s) ==
  IF s = <<>> THEN 0
  ELSE Number(SubSeq(s, 1, Len(s) - 1)) * 10 + DigitValue(s[Len(s)])

\* C7: format_time renders t as "HH:MM:SS,mmm", zero-padded, with
\* HH = floor(t / 3600), MM < 60, SS < 60 and mmm < 1000 the sub-second
\* remainder truncated to milliseconds; 3725.4 s is "01:02:05,400".
C7_FormatTime ==
  fmt_out # <<>> =>
    LET n == Len(fmt_out)
        hh == Number(SubSeq(fmt_out, 1, n - 10))
        mm == Number(SubSeq(fmt_out, n - 8, n - 7))
        ss == Number(SubSeq(fmt_out, n - 5, n - 4))
        mmm == Number(SubSeq(fmt_out, n - 2, n))
        whole == hh * 36000000 + mm * 600000 + ss * 10000 + mmm * 10
    IN /\ n >= 12
       /\ fmt_out[n - 9] = ":" /\ fmt_out[n - 6] = ":" /\ fmt_out[n - 3] = ","
       /\ \A i \in (1..n) \ {n - 9, n - 6, n - 3} : IsDigit(fmt_out[i])
       /\ mm < 60 /\ ss < 60 /\ mmm < 1000
       /\ whole <= fmt_seconds /\ fmt_seconds < whole + 10
       /\ fmt_seconds = 37254000 =>
            fmt_out = <<"0", "1", ":", "0", "2", ":", "0", "5", ",", "4", "0", "0">>

\* C7 witness: 3725.4 s was formatted.
C7_Witness == fmt_seconds = 37254000 /\ fmt_out # <<>>

\* what a step appends to the event queue
Appended ==
  IF /\ Len(after_queue') >= Len(after_queue)
     /\ SubSeq(after_queue', 1, Len(after_queue)) = after_queue
  THEN SubSeq(after_queue', Len(after_queue) + 1, Len(after_queue'))
  ELSE <<>>

\* the step runs the first event of the queue
RunsHead == after_queue # <<>> /\ after_queue' = Tail(after_queue)

Extends(longer, shorter) ==
  /\ Len(longer) = Len(shorter) + 1
  /\ SubSeq(longer, 1, Len(shorter)) = shorter

\* C8 in the application: leaving the loop without an error leads to the
\* flush; the flush is one step after which the worker is done, submits no
\* frame and leaves nothing buffered; it alone posts the "final" events,
\* behind everything posted before; the queue is served in order; and the
\* flush's events, when run, put its text last.
C8_App ==
  /\ pa_pc = "loop" /\ pa_pc' # "loop" =>
       pa_pc' = "flush" \/ (pa_pc' = "idle" /\ status' = "Processing error")
  /\ pa_pc = "flush" /\ pa_pc' # "flush" =>
       /\ pa_pc' = "idle"
       /\ ~rec_buffered'
       /\ frames_left' = frames_left
       /\ ~rec_buffered => Appended = <<>>
       /\ \/ Appended = <<>>
          \/ /\ Len(Appended) = 2
             /\ Appended[1].fn = "update_transcript"
             /\ Appended[2].fn = "add_subtitle_segment"
             /\ Appended[1].arg = Appended[2].arg.text
             /\ Appended[1].arg # <<>>
  /\ \A i \in 1..Len(Appended) :
       /\ Appended[i].src = "final" => pa_pc = "flush" /\ pa_pc' = "idle"
       /\ Appended[i].src = "chunk" => pa_pc = "loop" /\ pa_pc' = "loop"
  /\ \/ RunsHead
     \/ /\ Len(after_queue') >= Len(after_queue)
        /\ SubSeq(after_queue', 1, Len(after_queue)) = after_queue
  /\ RunsHead /\ Head(after_queue).src = "final" =>
       /\ Head(after_queue).fn = "add_subtitle_segment" =>
            /\ Extends(subtitle_segments', subtitle_segments)
            /\ Last(subtitle_segments').text = Head(after_queue).arg.text
       /\ Head(after_queue).fn = "update_transcript" =>
            Last(SplitOn(transcript_text', NL)) = Head(after_queue).arg

\* C8 in the batch program: the same, the flush result appended directly.
C8_Batch ==
  program = "batch" =>
    /\ b_pc = "loop" /\ b_pc' # "loop" =>
         b_pc' = "flush" \/ b_file \in b_errors'
    /\ b_pc = "flush" /\ b_pc' # "flush" =>
         /\ b_pc' = "write_txt"
         /\ ~b_buffered'
         /\ frames_left' = frames_left
         /\ ~b_buffered => b_segments' = b_segments
         /\ b_segments' = b_segments \/ Extends(b_segments', b_segments)
    /\ b_pc # "flush" /\ b_pc # "loop" => b_segments' = b_segments \/ b_segments' = <<>>

\* C8: in a file-based session the end of the stream is followed by exactly
\* one flush, after the last frame, and a non-empty flush result is
\* committed last, behind every mid-stream final.
C8_FlushOnceLast == [][C8_App /\ C8_Batch]_vars

\* C8 witness: the flush's segment is next to be added, behind a mid-stream
\* final already committed.
C8_Witness ==
  /\ program = "gui"
  /\ pa_pc = "idle"
  /\ subtitle_segments # <<>>
  /\ after_queue # <<>>
  /\ Head(after_queue).src = "final"
  /\ Head(after_queue).fn = "add_subtitle_segment"

\* a step of stop_recording called from toggle_microphone
StopsRecording == is_recording /\ ~is_recording' /\ status' = "Recording stopped"

\* C9: stopping an active recording flushes the recognizer for the tail
\* result: after the stop nothing is left buffered and uncommitted.
C9_StopFlushes == [][StopsRecording => ~rec_buffered']_vars

\* C10: stop_recording changes neither subtitle_segments nor the transcript,
\* and the SRT built right after it is the SRT built right before it.
C10_StopKeepsState ==
  [][StopsRecording =>
       /\ subtitle_segments' = subtitle_segments
       /\ transcript_text' = transcript_text
       /\ subtitle_text' = subtitle_text
       /\ build_srt(subtitle_segments') = build_srt(subtitle_segments)]_vars

\* C10 witness: a recording with a committed segment was stopped.
C10_Witness ==
  /\ status = "Recording stopped"
  /\ ~is_recording
  /\ subtitle_segments # <<>>
  /\ transcript_text # <<>>

\* a step of the audio callback or of the process_audio worker thread (the
\* handler process_audio_thread, which starts the worker, is not one)
ProducerStep ==
  /\ program = "gui"
  /\ \/ frames_left' # frames_left
     \/ pa_pc # "idle" /\ pa_pc' # pa_pc

\* C11: once stop_recording has completed, and until a new recording or
\* file run starts, the event loop runs no event posted by the audio
\* callback: no update_transcript, update_partial_transcript or
\* add_subtitle_segment of the stopped recording mutates the state.
C11_NoCallbackEventAfterStop ==
  [][~is_recording /\ pa_pc = "idle" /\ RunsHead =>
       Head(after_queue).src # "callback"]_vars

\* C12: a microphone recording and a file run never feed the recognizer at
\* the same time.
C12_OneStreamingPhase ==
  ~(is_recording /\ recording_stream /\ pa_pc = "loop")

\* C13: no step of a producer thread (audio callback, process_audio worker)
\* writes subtitle_segments or the transcript itself; it only posts to the
\* event loop.
C13_WritesThroughOwner ==
  [][ProducerStep =>
       /\ subtitle_segments' = subtitle_segments
       /\ transcript_text' = transcript_text]_vars

\* C14: from reset_app (the only writer of the status "Ready") until a new
\* session starts (which writes another status), subtitle_segments and the
\* transcript are both empty: nothing of the session reset comes back.
C14_ClearedUntilNewSession ==
  program = "gui" /\ status = "Ready" =>
    subtitle_segments = <<>> /\ transcript_text = <<>>

\* file f was processed to the end: both artifacts written
Written(f) == b_txt[f] # Absent /\ b_srt[f] # Absent

\* C15: the batch attempts every file found, whatever happened to the files
\* before it (the loop moves from file f to file f + 1 and starts it with
\* the extraction), reports each failing file on its own, and always
\* reaches the end, where every file is either written or reported.
C15_BatchIsolatesFailures ==
  /\ [][/\ b_file' \in {b_file, b_file + 1}
        /\ b_file' = b_file + 1 /\ b_file' <= b_nfiles => b_pc' = "extract"
        /\ b_errors' # b_errors =>
             b_errors' = b_errors \cup {b_file} /\ b_file' = b_file + 1]_vars
  /\ [](b_pc = "done" =>
          /\ b_file = b_nfiles + 1
          /\ \A f \in 1..b_nfiles : (f \in b_errors) # Written(f))
  /\ <>(b_pc = "done")

\* C15 witness: the first file failed and the second one was written.
C15_Witness ==
  /\ program = "batch"
  /\ b_pc = "done"
  /\ b_nfiles >= 2
  /\ 1 \in b_errors
  /\ Written(2)

\* the recognizer raises inside transcribe_audio's loop / process_audio's loop
BatchEngineFails == program = "batch" /\ b_pc = "loop" /\ b_file \in b_errors'

AppEngineFails ==
  program = "gui" /\ pa_pc = "loop" /\ pa_pc' = "idle" /\ status' = "Processing error"

\* C16: when the engine fails mid-stream the results committed before the
\* failure are kept: the batch program still writes the transcript and the
\* subtitles of the segments accumulated so far, and the application keeps
\* the segments and the transcript it has.
C16_CommittedResultsPreserved ==
  [][/\ BatchEngineFails /\ b_segments # <<>> =>
          /\ b_txt'[b_file] # Absent
          /\ b_srt'[b_file] # Absent
     /\ AppEngineFails =>
          /\ subtitle_segments' = subtitle_segments
          /\ transcript_text' = transcript_text]_vars

\* the file the batch loop has just left without reporting it
JustWritten ==
  /\ program = "batch"
  /\ b_pc \in {"extract", "done"}
  /\ b_file > 1
  /\ (b_file - 1) \notin b_errors

TranscriptWritten ==
  \/ program = "batch" /\ b_pc = "write_srt"
  \/ program = "pipeline" /\ b_pc = "done"

\* C18: the transcript written for a file is the texts of the accepted
\* finals joined by newlines: N lines for N finals, line i the text of
\* final i.
C18_TranscriptNewlineJoined ==
  TranscriptWritten =>
    /\ b_txt[b_file] = JoinWith(Texts(b_segments), NL)
    /\ b_segments # <<>> => SplitOn(b_txt[b_file], NL) = Texts(b_segments)

\* process_audio has just returned from convert_to_wav
Converted == program = "gui" /\ pa_pc = "begin" /\ pa_pc' = "open"

\* C19: the fallback of a failed conversion is explicit: what the user can
\* observe (the status) after a conversion that failed is not what is
\* observed after one that succeeded, "Processing audio...".
C19_FallbackExplicit ==
  [][Converted /\ wav_file' = "input_file" =>
       status' # "Processing audio..."]_vars

\* the statuses load_model leaves when it fails
LoadFailed == {"Model not found", "Error loading model"}

\* a step in which a producer hands a frame to the recognizer and gets
\* something back
FrameRecognized ==
  /\ program = "gui"
  /\ frames_left' # frames_left
  /\ rec_buffered' # rec_buffered \/ Appended # <<>>

\* no frame reaches the recognizer before a load has completed
C20_LoadBeforeFrames ==
  /\ FrameRecognized => model /\ recognizer
  /\ pa_pc' # "idle" => model /\ recognizer

\* with no model loaded, Use Microphone is rejected and changes nothing
C20_StartRejected ==
  ~model =>
    /\ ~is_recording'
    /\ status' = "Load model first" =>
         /\ subtitle_segments' = subtitle_segments
         /\ transcript_text' = transcript_text

\* right after a failed load no session can be started
C20_FailedLoadTerminal ==
  status \in LoadFailed =>
    /\ ~is_recording => ~is_recording'
    /\ pa_pc = "idle" => pa_pc' = "idle"

\* C20: the session goes Idle, Loading, Ready, Streaming, Flushing, Idle:
\* no frame is submitted to the recognizer unless a load has completed,
\* starting the microphone with no model is rejected (is_recording, the
\* segments and the transcript unchanged), and after a failed load no
\* session can stream until a later load succeeds.
C20_SessionPhases ==
  [][program = "gui" =>
       C20_LoadBeforeFrames /\ C20_StartRejected /\ C20_FailedLoadTerminal]_vars


(***************************************************************************)
(* rename_files_with_underscores                                           *)
(***************************************************************************)
\* the entries that are not directories: files and symbolic links
Files(dir) == { n \in FileNames : dir[n].kind \in {"file", "link"} }

Present(dir) == { n \in FileNames : dir[n].kind # "none" }

\* C21: with dry_run the call only shows what it would rename: at every
\* point of the run, and when it returns, the directory holds the same
\* names, of the same files, as when it was called.
C21_DryRunChangesNothing ==
  program = "rename" /\ dry_run =>
    r_dir = r_initial /\ Present(r_dir) = Present(r_initial)

\* a dry run that returned having announced a renaming
C21_Witness ==
  program = "rename" /\ dry_run /\ r_pc = "done" /\ renamed_count >= 1

\* C25: a run never overwrites or loses a file: every file found at the call
\* (a symbolic link included: it is an entry of the directory like any other)
\* is still there under exactly one name, the number of files and the
\* directories are unchanged, a file without spaces keeps its name, and when
\* the function returns every file with a space was counted once: renamed if
\* it was (or, in a dry run, would have been) renamed, an error if it was
\* skipped or its renaming failed.
C25_NoFileLost ==
  program = "rename" =>
    /\ \A n \in Files(r_initial) :
         Cardinality({ m \in FileNames : r_dir[m] = r_initial[n] }) = 1
    /\ Cardinality(Files(r_dir)) = Cardinality(Files(r_initial))
    /\ \A n \in FileNames :
         r_initial[n].kind = "dir" \/ (n \in Files(r_initial) /\ ~HasSpace(n))
           => r_dir[n] = r_initial[n]
    /\ r_pc = "done" =>
         /\ renamed_count + error_count
              = Cardinality({ n \in Files(r_initial) : HasSpace(n) })
         /\ ~dry_run =>
              /\ renamed_count
                   = Cardinality({ m \in Files(r_dir) : r_dir[m].orig # m })
              /\ error_count
                   = Cardinality({ m \in Files(r_dir) : HasSpace(m) })

\* C22: the two drivers agree: fed the same final results, the application
\* (add_subtitle_segment for each, then build_srt) and the batch program
\* (transcribe_audio's filter, then generate_srt) accept the same results,
\* give them the same start and end times, and serialize the same document.
C22_DriversAgree ==
  program = "pipeline" =>
    /\ Texts(subtitle_segments) = Texts(b_segments)
    /\ subtitle_segments = BatchEntries
    /\ build_srt(subtitle_segments) = generate_srt(b_segments)

\* C23: a start_recording whose input stream could not be opened or started
\* (status "Recording error") leaves the application not recording, without
\* a stream, and the microphone button back to "Use Microphone", so that the
\* next toggle starts a recording.
C23_FailedStartNotRecording ==
  program = "gui" /\ status = "Recording error" =>
    /\ ~is_recording
    /\ ~recording_stream
    /\ mic_btn = "Use Microphone"

\* a session starts (the microphone is switched on, or a file run is
\* launched) while no other session is running
SessionStarts ==
  /\ program = "gui"
  /\ ~is_recording
  /\ pa_pc = "idle"
  /\ is_recording' \/ pa_pc' = "begin"

\* C24: sessions are isolated: when a session starts with no other session
\* running, nothing of the sessions before it is left to reach its segments
\* and transcript: the shared recognizer holds no uncommitted audio, which
\* the new session's next result or flush would commit, and no update posted
\* by an earlier session is pending, which would run after the new session
\* has cleared the views.
C24_SessionsIsolated ==
  [][SessionStarts => ~rec_buffered /\ after_queue = <<>>]_vars

=============================================================================
